---- MODULE Spec2Model ----
(***************************************************************************)
(* Model of the Poseidon incremental Merkle tree of src/src/lib.rs: the    *)
(* tree record, new, insert, is_known_root, the zeros table, the Borsh     *)
(* layout and the process-wide POSEIDON mutex.                             *)
(*                                                                         *)
(* 32-byte values are modelled symbolically:                               *)
(*   <<"L", n>>     a caller-chosen field element ( <<"L", 0>> is [0; 32]) *)
(*   <<"X", 0>>     32 bytes that are not a field element (>= modulus)     *)
(*   <<"Z", i>>     the constant zeros(i)                                  *)
(*   <<"H", l, r>>  the Poseidon hash of l and r                           *)
(***************************************************************************)
EXTENDS Integers, Sequences, FiniteSets, TLC

VARIABLES
    tree,        \* the PoseidonMerkleTree instance of the sequential caller
    poisoned,    \* the POSEIDON mutex is poisoned (process-wide)
    res,         \* what the last call returned
    pre,         \* the tree and the poison flag as they were when the last call began
    produced,    \* the roots written by the successful inserts on tree, in order
    feed,        \* the first MaxPeriod leaves inserted into tree
    ctree,       \* the tree each thread owns
    pc,          \* where each thread is in its insert call
    loc,         \* the locals of each thread's insert call
    holder,      \* the thread that holds the POSEIDON mutex, or "none"
    cfed,        \* the leaves each thread has passed to insert, in order
    cres         \* what each thread's insert calls returned, in order

seqVars == <<tree, res, pre, produced, feed>>

concVars == <<ctree, pc, loc, holder, cfed, cres>>

vars == <<tree, poisoned, res, pre, produced, feed, ctree, pc, loc, holder, cfed, cres>>

-----------------------------------------------------------------------------
(* Program constants *)

MAX_LEVELS == 20

ZERO_BYTES == <<"L", 0>>

(* Bounds of the model *)

\* insert is explored on trees of at most this many levels (2^5 = 32 > MAX_LEVELS
\* leaves, so that the root history wraps around)
MaxInsertLevels == 5

\* after the first MaxPeriod leaves, the leaves fed to a tree repeat with this period
MaxPeriod == 2

\* the threads' trees have at most this many levels
MaxConcLevels == 2

\* each thread calls insert at most this many times
MaxCalls == 2

-----------------------------------------------------------------------------
(* The hash primitive (light_poseidon, with the parameters of circom_t3) *)

BAD_BYTES == <<"X", 0>>

\* hash_bytes_be returns Err for an input that is not a field element
IsFieldElement(v) == v # BAD_BYTES

\* An ideal two-to-one hash: injective, never [0; 32], and such that the zeros
\* table is the table of empty-subtree hashes: zeros(i+1) = Hash(zeros(i), zeros(i)).
Hash(l, r) ==
    IF l = r /\ l[1] = "Z" /\ l[2] < MAX_LEVELS
    THEN <<"Z", l[2] + 1>>
    ELSE <<"H", l, r>>

-----------------------------------------------------------------------------
(* fn zeros(i: u32) -> [u8; 32] *)

zeros_in_range(i) == i \in 0..20

zeros(i) == <<"Z", i>>

-----------------------------------------------------------------------------
(* PoseidonMerkleTree *)

NoTree ==
    [levels |-> 0, filled_subtrees |-> <<>>, roots |-> <<>>,
     current_root_index |-> 0, next_index |-> 0]

\* a - b on u32 in a build without overflow checks. A u32 of 2^31 or more is
\* written as its two's-complement reading: 0 - 1 = 0xFFFFFFFF is written -1.
u32_wrapping_sub(a, b) == a - b

\* PoseidonMerkleTree::new: [kind, err, tree]
new(levels) ==
    IF levels > MAX_LEVELS
    THEN [kind |-> "Err", err |-> "InvalidLevels", tree |-> NoTree]
    ELSE IF levels < 1 \/ ~zeros_in_range(u32_wrapping_sub(levels, 1))
    \* levels = 0: "attempt to subtract with overflow" in a build with overflow
    \* checks, "Index out of bounds" from zeros(u32::MAX) in a build without
    THEN [kind |-> "Panic", err |-> "", tree |-> NoTree]
    ELSE [kind |-> "Ok", err |-> "",
          tree |-> [levels |-> levels,
                    filled_subtrees |-> [i \in 1..levels |-> zeros(i - 1)],
                    roots |-> [i \in 1..MAX_LEVELS |->
                                 IF i = 1 THEN zeros(levels - 1) ELSE ZERO_BYTES],
                    current_root_index |-> 0,
                    next_index |-> 0]]

\* 2u32.pow(self.levels)
capacity_mut(levels) == 2 * levels

capacity_off_by_one(levels) == 2 ^ levels + 1

capacity(levels) == 2 ^ levels

\* the loop body with the operands of the odd branch exchanged
LoopBody_swapped(st, i) ==
    LET even == st.current_index % 2 = 0
        left == IF even THEN st.current_level_hash ELSE st.current_level_hash
        right == IF even THEN zeros(i) ELSE st.filled_subtrees[i + 1]
    IN  IF ~(IsFieldElement(left) /\ IsFieldElement(right))
        THEN [st EXCEPT !.panicked = TRUE]
        ELSE [st EXCEPT !.current_level_hash = Hash(left, right),
                        !.filled_subtrees[i + 1] = left,
                        !.current_index = st.current_index \div 2]

\* the loop body storing the hash instead of its left operand
LoopBody_store_hash(st, i) ==
    LET even == st.current_index % 2 = 0
        left == IF even THEN st.current_level_hash ELSE st.filled_subtrees[i + 1]
        right == IF even THEN zeros(i) ELSE st.current_level_hash
    IN  IF ~(IsFieldElement(left) /\ IsFieldElement(right))
        THEN [st EXCEPT !.panicked = TRUE]
        ELSE [st EXCEPT !.current_level_hash = Hash(left, right),
                        !.filled_subtrees[i + 1] = IF even THEN Hash(left, right) ELSE left,
                        !.current_index = st.current_index \div 2]

\* the loop body writing filled_subtrees[i] before the hash call
LoopBody_write_first(st, i) ==
    LET even == st.current_index % 2 = 0
        left == IF even THEN st.current_level_hash ELSE st.filled_subtrees[i + 1]
        right == IF even THEN zeros(i) ELSE st.current_level_hash
    IN  IF ~(IsFieldElement(left) /\ IsFieldElement(right))
        THEN [st EXCEPT !.filled_subtrees[i + 1] = left, !.panicked = TRUE]
        ELSE [st EXCEPT !.current_level_hash = Hash(left, right),
                        !.filled_subtrees[i + 1] = left,
                        !.current_index = st.current_index \div 2]

\* one iteration of the loop of insert, at level i
LoopBody(st, i) ==
    LET even == st.current_index % 2 = 0
        left == IF even THEN st.current_level_hash ELSE st.filled_subtrees[i + 1]
        right == IF even THEN zeros(i) ELSE st.current_level_hash
    IN  IF ~(IsFieldElement(left) /\ IsFieldElement(right))
        THEN [st EXCEPT !.panicked = TRUE]      \* .unwrap() on Err
        ELSE [st EXCEPT !.current_level_hash = Hash(left, right),
                        !.filled_subtrees[i + 1] = left,
                        !.current_index = st.current_index \div 2]

RECURSIVE RunLoop(_, _, _)
RunLoop(st, i, n) ==
    IF i >= n \/ st.panicked THEN st ELSE RunLoop(LoopBody(st, i), i + 1, n)

LoopStart(t, leaf) ==
    [current_index |-> t.next_index, current_level_hash |-> leaf,
     filled_subtrees |-> t.filled_subtrees, panicked |-> FALSE]

new_root_index_stuck(t) == t.current_root_index

new_root_index_mut(t) == (t.current_root_index + 1) % (MAX_LEVELS - 1)

new_root_index(t) == (t.current_root_index + 1) % MAX_LEVELS

\* the value insert returns, from the tree it leaves
insert_return_mut(t) == t.next_index - 1

insert_return(t) == t.next_index

\* the root written into the slot the cursor is leaving
Finish_old_slot(t, st) ==
    [t EXCEPT !.filled_subtrees = st.filled_subtrees,
              !.current_root_index = new_root_index(t),
              !.roots[t.current_root_index + 1] = st.current_level_hash,
              !.next_index = t.next_index + 1]

\* the four statements after the loop of insert
Finish(t, st) ==
    [t EXCEPT !.filled_subtrees = st.filled_subtrees,
              !.current_root_index = new_root_index(t),
              !.roots[new_root_index(t) + 1] = st.current_level_hash,
              !.next_index = t.next_index + 1]

\* POSEIDON.lock() returns only while no thread holds the mutex
lock_free_mut(h) == TRUE

lock_free(h) == h = "none"

\* a MutexGuard dropped while its thread is panicking poisons the mutex
poison_on_unwind_mut(p) == p

poison_on_unwind(p) == TRUE

\* the MutexGuard is dropped (insert returns, or unwinds): the mutex is free again
unlock_leaked(h) == h

unlock(h) == "none"

\* what insert does when lock() returns Err
lock_error_mut(t) ==
    [kind |-> "Err", err |-> "PoseidonLockError", val |-> 0,
     tree |-> [t EXCEPT !.current_root_index = new_root_index(t)], poisoned |-> TRUE]

lock_error(t) ==
    [kind |-> "Err", err |-> "PoseidonLockError", val |-> 0,
     tree |-> t, poisoned |-> TRUE]

\* PoseidonMerkleTree::insert, called while no other thread holds the lock:
\* [kind, err, val, tree, poisoned]
insert(t, leaf, p) ==
    IF t.next_index = capacity(t.levels)
    THEN [kind |-> "Err", err |-> "MerkleTreeFull", val |-> 0,
          tree |-> t, poisoned |-> p]
    ELSE IF p
    THEN lock_error(t)
    ELSE LET st == RunLoop(LoopStart(t, leaf), 0, t.levels)
         IN  IF st.panicked
             \* the guard is dropped while unwinding: the mutex is poisoned
             THEN [kind |-> "Panic", err |-> "", val |-> 0,
                   tree |-> [t EXCEPT !.filled_subtrees = st.filled_subtrees],
                   poisoned |-> poison_on_unwind(p)]
             ELSE [kind |-> "Ok", err |-> "", val |-> insert_return(Finish(t, st)),
                   tree |-> Finish(t, st), poisoned |-> p]

prev_index_mut(i) == IF i = 0 THEN MAX_LEVELS - 2 ELSE i - 1

\* the backward step of the scan of is_known_root
prev_index(i) == IF i = 0 THEN MAX_LEVELS - 1 ELSE i - 1

RECURSIVE scan(_, _, _, _)
scan(t, root, i, n) ==
    IF n = 0 THEN FALSE
    ELSE IF t.roots[i + 1] = root THEN TRUE
    ELSE scan(t, root, prev_index(i), n - 1)

is_known_root_short(t, root) ==
    IF root = ZERO_BYTES THEN FALSE
    ELSE scan(t, root, t.current_root_index, MAX_LEVELS - 1)

is_known_root_nozero(t, root) == scan(t, root, t.current_root_index, MAX_LEVELS)

\* PoseidonMerkleTree::is_known_root
is_known_root(t, root) ==
    IF root = ZERO_BYTES THEN FALSE
    ELSE scan(t, root, t.current_root_index, MAX_LEVELS)

-----------------------------------------------------------------------------
(* Borsh encoding of the struct (derive(BorshSerialize)) *)

SIZE == 4 + 32 * MAX_LEVELS + 32 * MAX_LEVELS + 4 + 4

\* the encoding as a sequence of <<what, number of bytes>>
borsh_vec(name, v) == <<<<name \o ".len", 4>>>> \o [i \in 1..Len(v) |-> <<name, 32>>]

try_to_vec(t) ==
    <<<<"levels", 4>>>>
    \o borsh_vec("filled_subtrees", t.filled_subtrees)
    \o borsh_vec("roots", t.roots)
    \o <<<<"current_root_index", 4>>, <<"next_index", 4>>>>

RECURSIVE total_bytes(_)
total_bytes(enc) == IF enc = <<>> THEN 0 ELSE Head(enc)[2] + total_bytes(Tail(enc))

-----------------------------------------------------------------------------
(* The sequential caller: one tree, whole calls *)

\* the leaves of the tests, [1u8; 32] and [2u8; 32], and the empty leaf zeros(0)
Leaves == {zeros(0), <<"L", 1>>, <<"L", 2>>}

NoRes == [op |-> "none", levels |-> 0, bytes |-> ZERO_BYTES,
          kind |-> "none", err |-> "", val |-> 0]

Init ==
    /\ tree = NoTree
    /\ poisoned = FALSE
    /\ res = NoRes
    /\ pre = [tree |-> NoTree, poisoned |-> FALSE]
    /\ produced = <<>>
    /\ feed = <<>>
    /\ ctree = <<>> /\ pc = <<>> /\ loc = <<>> /\ holder = "none"
    /\ cfed = <<>> /\ cres = <<>>

\* the caller constructs its tree, trying again after a failure
New(levels) ==
    LET r == new(levels)
    IN  /\ tree = NoTree
        /\ pre' = [tree |-> tree, poisoned |-> poisoned]
        /\ res' = [NoRes EXCEPT !.op = "new", !.levels = levels,
                                !.kind = r.kind, !.err = r.err]
        /\ IF r.kind = "Ok"
           THEN tree' = r.tree /\ produced' = <<>> /\ feed' = <<>>
           ELSE UNCHANGED <<tree, produced, feed>>
        /\ UNCHANGED poisoned
        /\ UNCHANGED concVars

\* the leaves the model feeds to the tree: free for the first MaxPeriod
\* insertions, then repeating them; a malformed value at any time
Fed(leaf) ==
    \/ leaf = BAD_BYTES
    \/ /\ leaf \in Leaves
       /\ IF Len(feed) < MaxPeriod THEN TRUE
          ELSE leaf = feed[(tree.next_index % MaxPeriod) + 1]

\* a whole insert call (trees of more than MaxInsertLevels levels are constructed
\* and queried, but not filled)
Insert(leaf) ==
    /\ tree # NoTree
    /\ tree.levels <= MaxInsertLevels
    /\ Fed(leaf)
    /\ LET r == insert(tree, leaf, poisoned)
       IN  /\ pre' = [tree |-> tree, poisoned |-> poisoned]
           /\ res' = [NoRes EXCEPT !.op = "insert", !.bytes = leaf,
                                   !.kind = r.kind, !.err = r.err, !.val = r.val]
           /\ tree' = r.tree
           /\ poisoned' = r.poisoned
           /\ produced' = IF r.kind = "Ok"
                          THEN Append(produced, r.tree.roots[r.tree.current_root_index + 1])
                          ELSE produced
           /\ feed' = IF r.kind = "Ok" /\ Len(feed) < MaxPeriod
                      THEN Append(feed, leaf) ELSE feed
    /\ UNCHANGED concVars

Candidates ==
    {ZERO_BYTES, <<"L", 1>>, zeros(tree.levels - 1)}
    \cup (IF produced = <<>> THEN {} ELSE {produced[1], produced[Len(produced)]})

IsKnownRoot(root) ==
    /\ tree # NoTree
    /\ pre' = [tree |-> tree, poisoned |-> poisoned]
    /\ res' = [NoRes EXCEPT !.op = "is_known_root", !.bytes = root, !.kind = "Ok",
                            !.val = IF is_known_root(tree, root) THEN 1 ELSE 0]
    /\ UNCHANGED <<tree, poisoned, produced, feed>>
    /\ UNCHANGED concVars

Next ==
    \/ \E levels \in 0..(MAX_LEVELS + 1) : New(levels)
    \/ \E leaf \in Leaves \cup {BAD_BYTES} : Insert(leaf)
    \/ \E root \in Candidates : IsKnownRoot(root)

Spec == Init /\ [][Next]_vars

-----------------------------------------------------------------------------
(* Claims about the sequential caller *)

\* 2^d, written out so that the claims do not rest on the capacity check itself
Pow2(d) == IF d = 0 THEN 1 ELSE 2 ^ d

ValidLeaf(v) == v # BAD_BYTES

\* C1 (as claimed): new(depth) returns a tree of that depth for every depth in
\* 0..MAX_LEVELS, depth 0 included, without a fatal zeros lookup; new(MAX_LEVELS + 1)
\* fails with InvalidLevels and creates no tree.
C1_NewSucceedsFromZero ==
    res.op = "new" =>
        /\ res.levels \in 0..MAX_LEVELS =>
              res.kind = "Ok" /\ tree # NoTree /\ tree.levels = res.levels
        /\ res.levels = MAX_LEVELS + 1 =>
              res.kind = "Err" /\ res.err = "InvalidLevels" /\ tree = NoTree

\* C2: an insert of a valid leaf with a usable lock succeeds as long as fewer than
\* 2^levels leaves are in the tree, so exactly 2^levels inserts succeed; an insert on
\* a tree holding 2^levels leaves fails with MerkleTreeFull and changes no field.
C2_ExactCapacity ==
    /\ tree.next_index <= Pow2(tree.levels)
    /\ res.op = "insert" =>
        /\ (pre.tree.next_index < Pow2(pre.tree.levels)
              /\ ValidLeaf(res.bytes) /\ ~pre.poisoned)
             => res.kind = "Ok" /\ tree.next_index = pre.tree.next_index + 1
        /\ pre.tree.next_index = Pow2(pre.tree.levels)
             => res.kind = "Err" /\ res.err = "MerkleTreeFull" /\ tree = pre.tree

\* a tree of MaxInsertLevels levels was filled by 2^MaxInsertLevels successful
\* inserts and the next insert was refused
C2_Witness ==
    /\ res.op = "insert" /\ res.err = "MerkleTreeFull"
    /\ tree.levels = MaxInsertLevels
    /\ Len(produced) = Pow2(MaxInsertLevels)

\* C3: is_known_root([0; 32]) is false in every state of the tree, fresh or not,
\* and every call that was made with [0; 32] returned false.
C3_ZeroNeverKnown ==
    /\ tree # NoTree => ~is_known_root(tree, ZERO_BYTES)
    /\ (res.op = "is_known_root" /\ res.bytes = ZERO_BYTES) => res.val = 0

\* is_known_root([0; 32]) was called on a tree that has leaves and still has an
\* unwritten, all-zero history slot
C3_Witness ==
    /\ res.op = "is_known_root" /\ res.bytes = ZERO_BYTES /\ res.val = 0
    /\ tree.next_index > 0
    /\ \E i \in 1..MAX_LEVELS : tree.roots[i] = ZERO_BYTES

\* the successful insertions whose roots are the most recent MAX_LEVELS ones
Recent == {n \in 1..Len(produced) : n > Len(produced) - MAX_LEVELS}

Old == {n \in 1..Len(produced) : n <= Len(produced) - MAX_LEVELS}

\* C4: every root written by one of the most recent min(next_index, MAX_LEVELS)
\* successful insertions is recognized by is_known_root, also after
\* current_root_index has wrapped around.
C4_RecentRootsKnown ==
    /\ Len(produced) = tree.next_index
    /\ \A n \in Recent : is_known_root(tree, produced[n])

\* more than MAX_LEVELS insertions: the cursor has wrapped from MAX_LEVELS - 1 to 0
\* and gone on
C4_Witness ==
    /\ Len(produced) = MAX_LEVELS + 3
    /\ tree.current_root_index = 3
    /\ Cardinality({produced[n] : n \in Recent}) = MAX_LEVELS

\* C5 (as claimed): after more than MAX_LEVELS insertions no root written by an
\* insertion older than the most recent MAX_LEVELS is recognized, whatever the leaves.
C5_OldRootsForgotten ==
    \A n \in Old : ~is_known_root(tree, produced[n])

\* C5 (amended): a root written by an insertion older than the most recent MAX_LEVELS
\* is not recognized unless one of the most recent MAX_LEVELS insertions wrote the
\* same value again.
C5_OldRootsForgottenUnlessRewritten ==
    \A n \in Old :
        is_known_root(tree, produced[n]) <=> \E m \in Recent : produced[m] = produced[n]

\* an old root that is no longer recognized, and (in another tree) one that still is
C5_Witness ==
    /\ Old # {}
    /\ ~is_known_root(tree, produced[1])

\* C6: a successful insert returns the leaf count after the call (old next_index + 1),
\* so the n-th successful insert returns n.
C6_ReturnsNewCount ==
    (res.op = "insert" /\ res.kind = "Ok") =>
        /\ res.val = pre.tree.next_index + 1
        /\ res.val = tree.next_index
        /\ res.val = Len(produced)

C6_Witness ==
    res.op = "insert" /\ res.kind = "Ok" /\ res.val = 3 /\ pre.tree.next_index = 2

\* C7: an insert on a tree that is not full, called while the lock is poisoned,
\* returns PoseidonLockError and leaves every field of the tree as it was.
C7_PoisonedLockNoMutation ==
    (res.op = "insert" /\ pre.poisoned
        /\ pre.tree.next_index # Pow2(pre.tree.levels)) =>
        /\ res.kind = "Err" /\ res.err = "PoseidonLockError"
        /\ tree = pre.tree

C7_Witness ==
    /\ res.op = "insert" /\ res.err = "PoseidonLockError" /\ ValidLeaf(res.bytes)
    /\ pre.poisoned
    /\ tree.next_index > 0 /\ tree.next_index < Pow2(tree.levels)

\* C10 (as claimed): the encoding of every tree, of any number of levels in
\* 1..MAX_LEVELS and with any number of leaves, is at most SIZE bytes long (the claimed
\* layout, with MAX_LEVELS root slots and no length prefix before them, is what would
\* make it so).
C10_EncodingWithinSize ==
    tree # NoTree => total_bytes(try_to_vec(tree)) <= SIZE

\* C11: next_index <= 2^levels in every state of a tree, whatever calls succeeded or
\* failed before; a successful insert adds exactly 1 to next_index and every other
\* call (failed insert, is_known_root) leaves it as it was.
C11_LeafCountBounded ==
    /\ tree.next_index \in 0..Pow2(tree.levels)
    /\ (res.op = "insert" /\ res.kind = "Ok")
          => tree.next_index = pre.tree.next_index + 1
    /\ ((res.op = "insert" /\ res.kind # "Ok") \/ res.op = "is_known_root")
          => tree.next_index = pre.tree.next_index

\* a tree of 2 levels at its bound: 4 successful inserts, then one refused
C11_Witness ==
    /\ res.op = "insert" /\ res.err = "MerkleTreeFull"
    /\ tree.levels = 2 /\ tree.next_index = 4 /\ pre.tree.next_index = 4

\* the leaf at position j of a tree holding n leaves: the j-th inserted leaf, or the
\* empty leaf
LeafAt(j, n) == IF j < n THEN feed[(j % MaxPeriod) + 1] ELSE zeros(0)

\* the node at the given height and position of the complete binary tree over the
\* first n inserted leaves, computed from the leaves up
RECURSIVE Node(_, _, _)
Node(height, pos, n) ==
    IF height = 0 THEN LeafAt(pos, n)
    ELSE Hash(Node(height - 1, 2 * pos, n), Node(height - 1, 2 * pos + 1, n))

\* the running index of the insert that was just made, at level i
RunningIndex(i) == pre.tree.next_index \div Pow2(i)

\* C12: the root written by the k-th successful insert is the root of the complete
\* binary tree of `levels` levels over the k inserted leaves followed by empty leaves;
\* and whenever insert takes the odd branch at level i, filled_subtrees[i] holds the
\* hash of the fully populated left sibling subtree.
C12_AgreesWithReferenceTree ==
    /\ tree.next_index > 0 =>
          tree.roots[tree.current_root_index + 1] = Node(tree.levels, 0, tree.next_index)
    /\ (res.op = "insert" /\ res.kind = "Ok") =>
          \A i \in 0..(tree.levels - 1) :
              RunningIndex(i) % 2 = 1 =>
                  pre.tree.filled_subtrees[i + 1]
                      = Node(i, RunningIndex(i) - 1, pre.tree.next_index)

\* the insert at leaf index 3 of a tree of 3 levels: odd branch at levels 0 and 1,
\* even branch at level 2, with leaves that differ
C12_Witness ==
    /\ res.op = "insert" /\ res.kind = "Ok"
    /\ tree.levels = 3 /\ pre.tree.next_index = 3
    /\ Len(feed) = MaxPeriod /\ feed[1] # feed[2]

\* the root of a tree of the given number of levels with no leaves, under the
\* convention of insert: the empty sibling at level i is zeros(i)
RECURSIVE EmptyRoot(_)
EmptyRoot(levels) ==
    IF levels = 0 THEN zeros(0)
    ELSE LET below == EmptyRoot(levels - 1) IN Hash(below, below)

\* C13 (as claimed): the value new(levels) seeds roots[0] with is the root of a tree
\* of `levels` levels with no leaves under the empty-subtree convention of insert,
\* and is_known_root accepts it on the fresh tree.
C13_SeedIsEmptyRoot ==
    (res.op = "new" /\ res.kind = "Ok") =>
        /\ tree.roots[1] = EmptyRoot(tree.levels)
        /\ is_known_root(tree, tree.roots[1])

\* C14: after a successful insert, at each level i whose running index was even
\* filled_subtrees[i] is the left operand of that level's hash (the inserted leaf at
\* level 0, the hash carried up from level i - 1 above it, which is the node of the
\* reference tree that now contains the leaf); at each level whose running index was
\* odd filled_subtrees[i] is what it was before the call.
C14_FrontierUpdate ==
    (res.op = "insert" /\ res.kind = "Ok") =>
        /\ \A i \in 0..(tree.levels - 1) :
              IF RunningIndex(i) % 2 = 0
              THEN tree.filled_subtrees[i + 1] = Node(i, RunningIndex(i), tree.next_index)
              ELSE tree.filled_subtrees[i + 1] = pre.tree.filled_subtrees[i + 1]
        /\ RunningIndex(0) % 2 = 0 => tree.filled_subtrees[1] = res.bytes

\* the insert at leaf index 2 of a tree of 3 levels: even at level 0, odd at level 1,
\* even at level 2
C14_Witness ==
    /\ res.op = "insert" /\ res.kind = "Ok"
    /\ tree.levels = 3 /\ pre.tree.next_index = 2
    /\ tree.filled_subtrees[1] = res.bytes /\ res.bytes = <<"L", 2>>
    /\ tree.filled_subtrees[3] # pre.tree.filled_subtrees[3]

\* C15: a successful insert moves current_root_index to (old + 1) mod MAX_LEVELS,
\* writes the new root into that slot of roots, and leaves every other slot and
\* levels as they were; roots has MAX_LEVELS slots whatever the number of levels.
C15_HistoryWrite ==
    /\ tree # NoTree => Len(tree.roots) = MAX_LEVELS
    /\ (res.op = "insert" /\ res.kind = "Ok") =>
          /\ tree.current_root_index = (pre.tree.current_root_index + 1) % MAX_LEVELS
          /\ tree.roots[tree.current_root_index + 1]
                = Node(tree.levels, 0, tree.next_index)
          /\ \A j \in 1..MAX_LEVELS :
                j # tree.current_root_index + 1 => tree.roots[j] = pre.tree.roots[j]
          /\ tree.levels = pre.tree.levels

\* the insert that moves the cursor from MAX_LEVELS - 1 back to 0 and overwrites
\* the seeded slot
C15_Witness ==
    /\ res.op = "insert" /\ res.kind = "Ok"
    /\ pre.tree.current_root_index = MAX_LEVELS - 1
    /\ tree.current_root_index = 0
    /\ tree.roots[1] # pre.tree.roots[1]

\* the slot the scan of is_known_root reads at its k-th step
RECURSIVE Visited(_, _)
Visited(t, k) ==
    IF k = 0 THEN t.current_root_index ELSE prev_index(Visited(t, k - 1))

\* C16: for a candidate other than [0; 32], is_known_root is true exactly when some
\* slot of roots holds the candidate: the MAX_LEVELS steps of the backward scan read
\* MAX_LEVELS different slots, wherever the cursor is; and the call changes no field.
C16_KnownIffInHistory ==
    /\ tree # NoTree =>
          /\ \A c \in Candidates \ {ZERO_BYTES} :
                is_known_root(tree, c) <=> \E j \in 1..MAX_LEVELS : tree.roots[j] = c
          /\ {Visited(tree, k) : k \in 0..(MAX_LEVELS - 1)} = 0..(MAX_LEVELS - 1)
    /\ res.op = "is_known_root" =>
          /\ tree = pre.tree
          /\ res.bytes # ZERO_BYTES =>
                (res.val = 1 <=> \E j \in 1..MAX_LEVELS : tree.roots[j] = res.bytes)

\* the seeded root found in slot 0 while the cursor is at slot 3
C16_Witness ==
    /\ res.op = "is_known_root" /\ res.val = 1
    /\ tree.current_root_index = 3
    /\ res.bytes = tree.roots[1]
    /\ \A j \in 2..4 : tree.roots[j] # res.bytes

\* C18: current_root_index = next_index mod MAX_LEVELS and
\* 0 <= current_root_index < MAX_LEVELS in every state: both start at 0, a successful
\* insert advances both, a failed insert advances neither.
C18_CursorFollowsCount ==
    /\ tree # NoTree =>
          /\ tree.current_root_index = tree.next_index % MAX_LEVELS
          /\ tree.current_root_index \in 0..(MAX_LEVELS - 1)
    /\ (res.op = "new" /\ res.kind = "Ok") =>
          tree.current_root_index = 0 /\ tree.next_index = 0
    /\ (res.op = "insert" /\ res.kind # "Ok") =>
          /\ tree.current_root_index = pre.tree.current_root_index
          /\ tree.next_index = pre.tree.next_index

\* a failed insert after the cursor has wrapped around
C18_Witness ==
    /\ res.op = "insert" /\ res.kind # "Ok"
    /\ tree.next_index = MAX_LEVELS + 1
    /\ tree.current_root_index = 1

\* C20: an insert that ends in the panic of the hash call leaves every field of the
\* tree as it was: the leaf is what was rejected, in the hash call of level 0, before
\* the write to filled_subtrees; and nothing the hash rejects is ever stored.
C20_PanicLeavesTreeUnchanged ==
    /\ (res.op = "insert" /\ res.kind = "Panic") =>
          /\ tree = pre.tree
          /\ ~IsFieldElement(res.bytes)
          /\ LoopBody(LoopStart(pre.tree, res.bytes), 0).panicked
    /\ (res.op = "insert" /\ IsFieldElement(res.bytes)) => res.kind # "Panic"
    /\ \A i \in 1..Len(tree.filled_subtrees) : IsFieldElement(tree.filled_subtrees[i])
    /\ \A j \in 1..Len(tree.roots) : IsFieldElement(tree.roots[j])

\* the panic at an even leaf index (the malformed leaf is the left operand) of a
\* tree that has leaves
C20_Witness ==
    /\ res.op = "insert" /\ res.kind = "Panic"
    /\ pre.tree.next_index = 2 /\ ~pre.poisoned
    /\ tree.levels = 3

-----------------------------------------------------------------------------
(* Threads: each owns one tree and calls insert on it, one statement group at a
   time; POSEIDON is the one mutex they share *)

Threads == {"a", "b", "c"}

\* a field element and a malformed value
ConcLeaves == {<<"L", 1>>, BAD_BYTES}

NoLoc == [current_index |-> 0, current_level_hash |-> ZERO_BYTES,
          filled_subtrees |-> <<>>, panicked |-> FALSE,
          i |-> 0, nhash |-> 0, nacq |-> 0, after_panic |-> FALSE]

Returned(kind, err, val) == [kind |-> kind, err |-> err, val |-> val]

\* some insert, on any tree, has ended in the panic of the hash call
Panicked ==
    \E t \in Threads : \E n \in 1..Len(cres[t]) : cres[t][n].kind = "Panic"

ConcInit ==
    /\ tree = NoTree
    /\ poisoned = FALSE
    /\ res = NoRes
    /\ pre = [tree |-> NoTree, poisoned |-> FALSE]
    /\ produced = <<>>
    /\ feed = <<>>
    /\ \E d \in 1..MaxConcLevels : ctree = [t \in Threads |-> new(d).tree]
    /\ pc = [t \in Threads |-> "idle"]
    /\ loc = [t \in Threads |-> NoLoc]
    /\ holder = "none"
    /\ cfed = [t \in Threads |-> <<>>]
    /\ cres = [t \in Threads |-> <<>>]

\* insert is called: the capacity check and the two locals. A thread makes MaxCalls
\* calls, and one more if they have filled its tree.
CallInsert(t, leaf) ==
    /\ pc[t] = "idle"
    /\ \/ Len(cfed[t]) < MaxCalls
       \/ /\ Len(cfed[t]) = MaxCalls
          /\ ctree[t].next_index = capacity(ctree[t].levels)
    /\ cfed' = [cfed EXCEPT ![t] = Append(@, leaf)]
    /\ IF ctree[t].next_index = capacity(ctree[t].levels)
       THEN /\ cres' = [cres EXCEPT ![t] = Append(@, Returned("Err", "MerkleTreeFull", 0))]
            /\ loc' = [loc EXCEPT ![t] = [NoLoc EXCEPT !.after_panic = Panicked]]
            /\ UNCHANGED pc
       ELSE /\ pc' = [pc EXCEPT ![t] = "lock"]
            /\ loc' = [loc EXCEPT ![t] =
                          [NoLoc EXCEPT !.current_index = ctree[t].next_index,
                                        !.current_level_hash = leaf,
                                        !.filled_subtrees = ctree[t].filled_subtrees,
                                        !.after_panic = Panicked]]
            /\ UNCHANGED cres
    /\ UNCHANGED <<ctree, holder, poisoned>>
    /\ UNCHANGED seqVars

\* POSEIDON.lock().map_err(..)?
Lock(t) ==
    /\ pc[t] = "lock"
    /\ lock_free(holder)
    /\ IF poisoned
       THEN \* the guard inside the PoisonError is dropped at once
            /\ cres' = [cres EXCEPT ![t] =
                          Append(@, Returned(lock_error(ctree[t]).kind,
                                             lock_error(ctree[t]).err, 0))]
            /\ ctree' = [ctree EXCEPT ![t] = lock_error(ctree[t]).tree]
            /\ pc' = [pc EXCEPT ![t] = "idle"]
            /\ holder' = "none"
            /\ UNCHANGED loc
       ELSE /\ holder' = t
            /\ pc' = [pc EXCEPT ![t] = "loop"]
            /\ loc' = [loc EXCEPT ![t].nacq = @ + 1]
            /\ UNCHANGED <<cres, ctree>>
    /\ UNCHANGED <<cfed, poisoned>>
    /\ UNCHANGED seqVars

\* one iteration of the loop: one hash call, then the write of filled_subtrees[i]
HashStep(t) ==
    /\ pc[t] = "loop"
    /\ loc[t].i < ctree[t].levels
    /\ LET st == LoopBody(loc[t], loc[t].i)
       IN  IF st.panicked
           THEN \* unwinding drops the guard and poisons the mutex
                /\ poisoned' = poison_on_unwind(poisoned)
                /\ holder' = unlock(holder)
                /\ pc' = [pc EXCEPT ![t] = "idle"]
                /\ cres' = [cres EXCEPT ![t] = Append(@, Returned("Panic", "", 0))]
                /\ loc' = [loc EXCEPT ![t] = [st EXCEPT !.nhash = @ + 1]]
                /\ ctree' = [ctree EXCEPT ![t].filled_subtrees = st.filled_subtrees]
           ELSE /\ loc' = [loc EXCEPT ![t] = [st EXCEPT !.i = @ + 1, !.nhash = @ + 1]]
                /\ ctree' = [ctree EXCEPT ![t].filled_subtrees = st.filled_subtrees]
                /\ UNCHANGED <<poisoned, holder, pc, cres>>
    /\ UNCHANGED cfed
    /\ UNCHANGED seqVars

\* the statements after the loop; the guard is dropped when insert returns
Return(t) ==
    /\ pc[t] = "loop"
    /\ loc[t].i = ctree[t].levels
    /\ ctree' = [ctree EXCEPT ![t] = Finish(ctree[t], loc[t])]
    /\ cres' = [cres EXCEPT ![t] =
                  Append(@, Returned("Ok", "", insert_return(Finish(ctree[t], loc[t]))))]
    /\ holder' = unlock(holder)
    /\ pc' = [pc EXCEPT ![t] = "idle"]
    /\ UNCHANGED <<loc, cfed, poisoned>>
    /\ UNCHANGED seqVars

ConcNext ==
    \/ \E t \in Threads, leaf \in ConcLeaves : CallInsert(t, leaf)
    \/ \E t \in Threads : Lock(t)
    \/ \E t \in Threads : HashStep(t)
    \/ \E t \in Threads : Return(t)

ConcSpec == ConcInit /\ [][ConcNext]_vars

\* Fair scheduling: a thread that can make its next hash call or return does so
\* (it holds the mutex, nothing stops it), and a thread waiting in lock() that finds
\* the mutex free again and again eventually takes it.
Fairness ==
    \A t \in Threads :
        /\ WF_vars(HashStep(t))
        /\ WF_vars(Return(t))
        /\ SF_vars(Lock(t))

LiveSpec == ConcInit /\ [][ConcNext]_vars /\ Fairness

-----------------------------------------------------------------------------
(* Claims about the threads *)

LastReturned(t) == cres[t][Len(cres[t])]

\* C8: a thread is inside the loop of insert (where every hash call is made) only
\* while it holds the mutex, so at most one thread is there at a time and the hash
\* calls of two inserts do not interleave; it took the mutex once for the call, and
\* an insert that returned Ok made all its `levels` hash calls under that one
\* acquisition.
C8_HashingSerialized ==
    /\ \A t \in Threads :
          pc[t] = "loop" =>
              holder = t /\ loc[t].nacq = 1 /\ loc[t].nhash = loc[t].i
    /\ \A t, u \in Threads : (pc[t] = "loop" /\ pc[u] = "loop") => t = u
    /\ \A t \in Threads :
          (pc[t] = "idle" /\ cres[t] # <<>> /\ LastReturned(t).kind = "Ok") =>
              loc[t].nhash = ctree[t].levels /\ loc[t].nacq = 1

\* one thread has made its first hash call and not yet its last while a second
\* waits for the mutex and a third has completed an insert
C8_Witness ==
    \E t, u, v \in Threads :
        /\ pc[t] = "loop" /\ loc[t].i = 1 /\ ctree[t].levels = 2
        /\ pc[u] = "lock"
        /\ pc[v] = "idle" /\ cres[v] # <<>> /\ LastReturned(v).kind = "Ok"

AllFieldElements(leaves) == \A n \in 1..Len(leaves) : IsFieldElement(leaves[n])

\* C9 (as claimed): two trees constructed with the same depth whose threads have fed
\* them the same sequence of leaves (field elements) have returned the same results
\* and hold the same filled_subtrees, roots, current_root_index and next_index,
\* whatever the inserts on other trees did in between.
C9_Deterministic ==
    \A t, u \in Threads :
        (/\ pc[t] = "idle" /\ pc[u] = "idle"
         /\ ctree[t].levels = ctree[u].levels
         /\ cfed[t] = cfed[u]
         /\ AllFieldElements(cfed[t]))
        => cres[t] = cres[u] /\ ctree[t] = ctree[u]

C19_PoisonIsPermanent ==
    [][Panicked =>
        /\ ctree' = ctree
        /\ \A t \in Threads :
              Len(cres'[t]) > Len(cres[t]) =>
                  /\ cres'[t][Len(cres'[t])].kind = "Err"
                  /\ cres'[t][Len(cres'[t])].err =
                        IF ctree[t].next_index = Pow2(ctree[t].levels)
                        THEN "MerkleTreeFull" ELSE "PoseidonLockError"]_vars

\* after the panic of one thread's insert, a second thread's call on its full tree
\* returned MerkleTreeFull and a third thread's call on a tree with room returned
\* PoseidonLockError
C19_Witness ==
    \E t, u, v \in Threads :
        /\ cres[v] # <<>> /\ LastReturned(v).kind = "Panic"
        /\ pc[t] = "idle" /\ cres[t] # <<>> /\ loc[t].after_panic
        /\ LastReturned(t).err = "MerkleTreeFull"
        /\ pc[u] = "idle" /\ cres[u] # <<>> /\ loc[u].after_panic
        /\ LastReturned(u).err = "PoseidonLockError"
        /\ ctree[u].next_index = 1

====
